---- MODULE Spec2Model ----
(***************************************************************************)
(* A state-machine model of the Wlog logger (src/wlog.ts): the SQLite      *)
(* table `logs`, the console, the log file in its three formats, the three *)
(* entry points log / info / error and the HTTP query handler.             *)
(*                                                                         *)
(* Strings are sequences of tokens (a token is one character, or a run of  *)
(* characters that no operation of the program ever splits); concatenation *)
(* is \o.  An optional value (JS undefined / null) is a record with a      *)
(* `present` flag.                                                         *)
(***************************************************************************)
EXTENDS Integers, Sequences, FiniteSets, TLC

\* Bounds of the model.
MaxCalls == 2
MaxClock == 1

VARIABLES
    config,       \* this.config (logToConsole, logToFile, fileFormat, serverOptions.enable)
    logs,         \* the rows of table logs, in rowid order
    dbSeq,        \* sqlite_sequence.seq of table logs (AUTOINCREMENT)
    console,      \* what was written to the console, in order
    dirExists,    \* whether dirname(getFullFilePath()) exists
    file,         \* the file at getFullFilePath(): [exists, content]
    fsWrites,     \* number of writeFileSync calls made so far
    clock,        \* the instant new Date() reads
    history,      \* one record per call of log/info/error, in call order
    fileAtStart,  \* the file as it was when the logger was constructed
    response      \* what the fetch handler returned to the latest request

vars == <<config, logs, dbSeq, console, dirExists, file, fsWrites, clock,
          history, fileAtStart, response>>

----------------------------------------------------------------------------
\* Strings and small helpers

Last(s) == s[Len(s)]

Range(s) == {s[i] : i \in DOMAIN s}

RECURSIVE Flatten(_)
Flatten(ss) == IF ss = <<>> THEN <<>> ELSE Head(ss) \o Flatten(Tail(ss))

Reverse(s) == [i \in 1..Len(s) |-> s[Len(s) + 1 - i]]

IsPrefix(p, s) == Len(p) <= Len(s) /\ SubSeq(s, 1, Len(p)) = p

EndsWith(s, t) == Len(t) <= Len(s) /\ SubSeq(s, Len(s) - Len(t) + 1, Len(s)) = t

\* The lines of a text: the runs of tokens that end with "\n" (and a last
\* unterminated run, if any).
LineBreaks(text) == {i \in DOMAIN text : text[i] = "\n"}

\* The position of the k-th line break; 0 for k = 0, one past the end when
\* there are fewer than k.
LineBreakAt(text, k) ==
    IF k = 0 THEN 0
    ELSE IF k > Cardinality(LineBreaks(text)) THEN Len(text) + 1
    ELSE CHOOSE p \in LineBreaks(text) :
            Cardinality({i \in LineBreaks(text) : i <= p}) = k

Lines(text) ==
    [k \in 1..(Cardinality(LineBreaks(text))
               + (IF text # <<>> /\ Last(text) # "\n" THEN 1 ELSE 0)) |->
        SubSeq(text, LineBreakAt(text, k - 1) + 1, LineBreakAt(text, k) - 1)]

Digits == <<"0", "1", "2", "3", "4", "5", "6", "7", "8", "9">>

IsDigit(c) == c \in Range(Digits)

DigitValue(c) == (CHOOSE i \in DOMAIN Digits : Digits[i] = c) - 1

\* Optional values.
Absent == [present |-> FALSE, value |-> <<>>]
Str(s) == [present |-> TRUE, value |-> s]

----------------------------------------------------------------------------
\* LogFormat, timestamps, LogEntry

TEXT == "txt"
JSON == "json"
CSV == "csv"
LogFormat == {TEXT, JSON, CSV}

\* new Date().toISOString(): fixed width, so that text order is time order.
IsoString(t) == <<Digits[(t \div 10) + 1], Digits[(t % 10) + 1], "Z">>

\* getTimestamp(): new Date().toLocaleString(), "<date>, <time>".
getTimestamp(t) == <<Digits[(t \div 10) + 1], ",", " ", Digits[(t % 10) + 1]>>

formatLogEntry(level, message, t) ==
    [timestamp |-> getTimestamp(t), level |-> level, message |-> message]

----------------------------------------------------------------------------
\* JSON.stringify(logs, null, 2) and JSON.parse, on arrays of LogEntry

Quote == "\""
Backslash == "\\"

\* EscapeToken without the escape of the quote (a variant the round trip of
\* the JSON file must tell from it).
EscapeTokenQuoteRaw(c) ==
    IF c = Backslash THEN <<Backslash, Backslash>>
    ELSE IF c = "\n" THEN <<Backslash, "n">>
    ELSE <<c>>

EscapeToken(c) ==
    IF c = Quote THEN <<Backslash, Quote>>
    ELSE IF c = Backslash THEN <<Backslash, Backslash>>
    ELSE IF c = "\n" THEN <<Backslash, "n">>
    ELSE <<c>>

JsonString(s) ==
    <<Quote>> \o Flatten([i \in DOMAIN s |-> EscapeToken(s[i])]) \o <<Quote>>

JsonMember(indent, key, s, last) ==
    indent \o JsonString(<<key>>) \o <<":", " ">> \o JsonString(s)
           \o (IF last THEN <<"\n">> ELSE <<",", "\n">>)

JsonObject(e) ==
    <<"  ", "{", "\n">>
    \o JsonMember(<<"    ">>, "timestamp", e.timestamp, FALSE)
    \o JsonMember(<<"    ">>, "level", <<e.level>>, FALSE)
    \o JsonMember(<<"    ">>, "message", e.message, TRUE)
    \o <<"  ", "}">>

RECURSIVE JsonElements(_)
JsonElements(es) ==
    IF Len(es) = 1 THEN JsonObject(es[1]) \o <<"\n">>
    ELSE JsonObject(Head(es)) \o <<",", "\n">> \o JsonElements(Tail(es))

JsonStringify(es) ==
    IF es = <<>> THEN <<"[", "]">>
    ELSE <<"[", "\n">> \o JsonElements(es) \o <<"]">>

\* JSON.parse(content) for a text that is an array of LogEntry objects (all
\* this program ever writes) or a damaged copy of one: a scan of the text
\* token by token.  In the state of the scan, `st` is what it expects next,
\* `f` the member of the object it is in (1 timestamp, 2 level, 3 message),
\* `cur` the string being read, `entry` the object being read, `acc` the
\* objects read so far; st = "error" is JSON.parse throwing a SyntaxError.
IsSpace(c) == c \in {" ", "  ", "    ", "\n"}

MemberNames == <<"timestamp", "level", "message">>

NoEntry == [timestamp |-> <<>>, level |-> "", message |-> <<>>]

ScanStart == [st |-> "start", f |-> 1, cur |-> <<>>, entry |-> NoEntry, acc |-> <<>>]

\* The object with member f set to the string just read.
WithMember(entry, f, cur) ==
    IF f = 1 THEN [entry EXCEPT !.timestamp = cur]
    ELSE IF f = 2 THEN [entry EXCEPT !.level = cur[1]]
    ELSE [entry EXCEPT !.message = cur]

\* Inside a string.
ScanInString(s, c) ==
    IF c = Backslash THEN [s EXCEPT !.st = IF s.st = "inKey" THEN "escKey" ELSE "escValue"]
    ELSE IF c = "\n" THEN [s EXCEPT !.st = "error"]
    ELSE IF c # Quote THEN [s EXCEPT !.cur = Append(s.cur, c)]
    ELSE IF s.st = "inKey"
         THEN IF s.cur = <<MemberNames[s.f]>>
              THEN [s EXCEPT !.st = "colon", !.cur = <<>>]
              ELSE [s EXCEPT !.st = "error"]
    ELSE IF s.f = 2 /\ Len(s.cur) # 1 THEN [s EXCEPT !.st = "error"]
    ELSE [s EXCEPT !.st = "afterValue", !.cur = <<>>,
                   !.entry = WithMember(s.entry, s.f, s.cur)]

\* After a backslash.
ScanEscape(s, c) ==
    IF c \in {Quote, Backslash, "n"}
    THEN [s EXCEPT !.st = IF s.st = "escKey" THEN "inKey" ELSE "inValue",
                   !.cur = Append(s.cur, IF c = "n" THEN "\n" ELSE c)]
    ELSE [s EXCEPT !.st = "error"]

\* Between strings.
ScanStructure(s, c) ==
    IF IsSpace(c) THEN s
    ELSE IF s.st = "start" /\ c = "[" THEN [s EXCEPT !.st = "first"]
    ELSE IF s.st = "first" /\ c = "]" THEN [s EXCEPT !.st = "end"]
    ELSE IF s.st \in {"first", "object"} /\ c = "{"
         THEN [s EXCEPT !.st = "key", !.f = 1, !.entry = NoEntry]
    ELSE IF s.st = "key" /\ c = Quote THEN [s EXCEPT !.st = "inKey", !.cur = <<>>]
    ELSE IF s.st = "colon" /\ c = ":" THEN [s EXCEPT !.st = "value"]
    ELSE IF s.st = "value" /\ c = Quote THEN [s EXCEPT !.st = "inValue", !.cur = <<>>]
    ELSE IF s.st = "afterValue" /\ s.f < Len(MemberNames) /\ c = ","
         THEN [s EXCEPT !.st = "key", !.f = s.f + 1]
    ELSE IF s.st = "afterValue" /\ s.f = Len(MemberNames) /\ c = "}"
         THEN [s EXCEPT !.st = "afterObject", !.acc = Append(s.acc, s.entry)]
    ELSE IF s.st = "afterObject" /\ c = "," THEN [s EXCEPT !.st = "object"]
    ELSE IF s.st = "afterObject" /\ c = "]" THEN [s EXCEPT !.st = "end"]
    ELSE [s EXCEPT !.st = "error"]

ScanToken(s, c) ==
    IF s.st = "error" THEN s
    ELSE IF s.st \in {"inKey", "inValue"} THEN ScanInString(s, c)
    ELSE IF s.st \in {"escKey", "escValue"} THEN ScanEscape(s, c)
    ELSE ScanStructure(s, c)

\* The scan of tokens lo..hi from state s, left to right (split in halves to
\* keep the evaluation shallow).
RECURSIVE JsonScan(_, _, _, _)
JsonScan(text, lo, hi, scan) ==
    IF lo > hi \/ scan.st = "error" THEN scan
    ELSE IF lo = hi THEN ScanToken(scan, text[lo])
    ELSE LET left == JsonScan(text, lo, (lo + hi) \div 2, scan)
         IN  IF left.st = "error" THEN left
             ELSE JsonScan(text, ((lo + hi) \div 2) + 1, hi, left)

Parsed(s) == [ok |-> s.st = "end", val |-> IF s.st = "end" THEN s.acc ELSE <<>>]

JsonParse(text) == Parsed(JsonScan(text, 1, Len(text), ScanStart))

----------------------------------------------------------------------------
\* The file sink

\* What can go wrong in one call (an input of the call; "none" is a call in
\* which every I/O operation succeeds):
\*   store    db.run throws
\*   mkdir    mkdirSync throws
\*   read     readFileSync throws
\*   open     writeFileSync throws before the file is touched (EACCES, EISDIR)
\*   trunc    writeFileSync throws after the file was opened with flag 'w',
\*            hence truncated, and before any byte was written (ENOSPC)
\*   partial  writeFileSync throws after part of the data was written
NoFault == "none"
FileFaults == {"mkdir", "read", "open", "trunc", "partial"}
Faults == {"store"} \cup FileFaults

NoFile == [exists |-> FALSE, content |-> <<>>]
EmptyFile == [exists |-> TRUE, content |-> <<>>]

CsvHeader == <<"timestamp", ",", "level", ",", "message", "\n">>

CsvLine(entry) ==
    entry.timestamp \o <<",", entry.level, ",">> \o entry.message \o <<"\n">>

TextLine(entry) ==
    <<"[">> \o entry.timestamp \o <<"]", " ", "[", entry.level, "]", " ">>
            \o entry.message \o <<"\n">>

FailedToWrite == [stream |-> "error", text |-> <<"Failed to write to log file:">>]

\* The switch of writeToFile: the new content of the file, or ok = FALSE when
\* JSON.parse throws.
\* CsvContent with the header put in front on every call (a variant the
\* header invariant must tell from it).
CsvContentHeaderAlways(content) == CsvHeader \o content

\* if (!content) { content = 'timestamp,level,message\n' }
CsvContent(content) == IF content = <<>> THEN CsvHeader ELSE content

PushAndStringify(parsed, entry) ==
    [ok |-> parsed.ok,
     text |-> IF parsed.ok THEN JsonStringify(Append(parsed.val, entry))
              ELSE <<>>]

NewContent(format, content, entry) ==
    IF format = JSON THEN
        PushAndStringify(IF content # <<>> THEN JsonParse(content)
                         ELSE [ok |-> TRUE, val |-> <<>>], entry)
    ELSE IF format = CSV THEN
        [ok |-> TRUE, text |-> CsvContent(content) \o CsvLine(entry)]
    ELSE
        [ok |-> TRUE, text |-> content \o TextLine(entry)]

\* writeFileSync(filePath, newContent) under a fault.
WriteFileSync(f, text, fault) ==
    IF fault = "open" THEN [thrown |-> TRUE, file |-> f]
    ELSE IF fault = "trunc" THEN [thrown |-> TRUE, file |-> EmptyFile]
    ELSE IF fault = "partial"
         THEN [thrown |-> TRUE,
               file |-> [exists |-> TRUE,
                         content |-> SubSeq(text, 1, Len(text) \div 2)]]
    ELSE [thrown |-> FALSE, file |-> [exists |-> TRUE, content |-> text]]

\* writeToFile without its try/catch: the error leaves the method (a variant
\* the containment of file failures must tell from Caught).
Uncaught(stage, d, f, w) ==
    [thrown |-> TRUE, failed |-> stage, dirExists |-> d, file |-> f,
     fsWrites |-> w, report |-> <<>>]

\* The catch block of writeToFile: the error is reported on console.error and
\* the method returns normally.  `stage` names the operation that threw:
\* "mkdir", "read", "parse" or "write".
Caught(stage, d, f, w) ==
    [thrown |-> FALSE, failed |-> stage, dirExists |-> d, file |-> f,
     fsWrites |-> w, report |-> <<FailedToWrite>>]

\* The end of the try block: writeFileSync has returned or thrown.
Written(w) ==
    IF w.thrown THEN Caught("write", TRUE, w.file, fsWrites + 1)
    ELSE [thrown |-> FALSE, failed |-> "none", dirExists |-> TRUE,
          file |-> w.file, fsWrites |-> fsWrites + 1, report |-> <<>>]

\* writeToFile(entry): the directory, the file and the write count after the
\* call, whether the call failed inside (failed), whether an error left the
\* method (thrown), and what it reported on the console.
WriteNew(new, fault) ==
    IF ~new.ok THEN Caught("parse", TRUE, file, fsWrites)
    ELSE Written(WriteFileSync(file, new.text, fault))

writeToFile(entry, fault) ==
    IF ~dirExists /\ fault = "mkdir" THEN Caught("mkdir", dirExists, file, fsWrites)
    ELSE IF file.exists /\ fault = "read" THEN Caught("read", TRUE, file, fsWrites)
    ELSE WriteNew(NewContent(config.fileFormat,
                             IF file.exists THEN file.content ELSE <<>>, entry),
                  fault)

----------------------------------------------------------------------------
\* The store

\* An insert that tags every row "log" (a variant the level of the stored
\* row must tell from InsertRow).
InsertRowAsLog(level, message, timestamp) ==
    [id |-> dbSeq + 1, level |-> "log", message |-> message,
     timestamp |-> timestamp]

\* INSERT INTO logs (level, message, timestamp) VALUES (?, ?, ?) on a table
\* whose id is INTEGER PRIMARY KEY AUTOINCREMENT.
InsertRow(level, message, timestamp) ==
    [id |-> dbSeq + 1, level |-> level, message |-> message,
     timestamp |-> timestamp]

----------------------------------------------------------------------------
\* The logger facade

ConsoleLine(stream, tag, message, t) ==
    [stream |-> stream,
     text |-> <<"[">> \o getTimestamp(t) \o <<"]", " ", "[", tag, "]", " ">>
                      \o message]

\* No request has been answered since the last call.
NoResponse ==
    [status |-> "none", params |-> <<>>, query |-> <<>>, values |-> <<>>,
     rows |-> <<>>]

\* The bound on the number of calls; the handler of a request runs to its
\* end before anything else does.
CanCall == Len(history) < MaxCalls /\ response = NoResponse

\* The record of one call kept in history: the entry point, its argument,
\* the instant of the call, whether an error left the entry point (threw),
\* whether db.run threw (storeFailed) and the operation of writeToFile that
\* threw, "none" when none did (fileFailed).
CallRecord(op, message, threw, storeFailed, fileFailed) ==
    [op |-> op, message |-> message, time |-> clock, threw |-> threw,
     storeFailed |-> storeFailed, fileFailed |-> fileFailed]

\* db.run threw: the error leaves the entry point; nothing after it runs.
StoreThrows(op, message) ==
    /\ history' = Append(history, CallRecord(op, message, TRUE, TRUE, "none"))
    /\ UNCHANGED <<config, logs, dbSeq, console, dirExists, file, fsWrites,
                   clock, fileAtStart, response>>

\* writeToFile was not called.
NotWritten ==
    [thrown |-> FALSE, failed |-> "none", dirExists |-> dirExists,
     file |-> file, fsWrites |-> fsWrites, report |-> <<>>]

\* The state after an entry point whose insert succeeded: `row` is the row
\* inserted, `line` what went to the console, `w` what writeToFile did.
Returned(op, message, row, line, w) ==
    /\ logs' = Append(logs, row)
    /\ dbSeq' = dbSeq + 1
    /\ console' = console \o line \o w.report
    /\ dirExists' = w.dirExists
    /\ file' = w.file
    /\ fsWrites' = w.fsWrites
    /\ history' = Append(history,
                         CallRecord(op, message, w.thrown, FALSE, w.failed))
    /\ UNCHANGED <<config, clock, fileAtStart, response>>

\* The body the three entry points share, after a successful insert of a row
\* with level `level`: the console line on `stream` tagged `tag`, then the
\* file entry with level `fileLevel`.
Emit(op, level, stream, tag, fileLevel, message, fault) ==
    Returned(op, message,
             InsertRow(level, message, IsoString(clock)),
             IF config.logToConsole
             THEN <<ConsoleLine(stream, tag, message, clock)>> ELSE <<>>,
             IF config.logToFile
             THEN writeToFile(formatLogEntry(fileLevel, message, clock), fault)
             ELSE NotWritten)

\* log(message) handing its store tag, "log", to the file as well (a variant
\* the level written to the file must tell from Log).
LogFileLevelAsStored(message, fault) ==
    /\ CanCall
    /\ IF fault = "store" THEN StoreThrows("log", message)
       ELSE Emit("log", "log", "log", "LOG", "log", message, fault)

\* log(message)
Log(message, fault) ==
    /\ CanCall
    /\ IF fault = "store" THEN StoreThrows("log", message)
       ELSE Emit("log", "log", "log", "LOG", "LOG", message, fault)

\* info(message)
Info(message, fault) ==
    /\ CanCall
    /\ IF fault = "store" THEN StoreThrows("info", message)
       ELSE Emit("info", "info", "info", "INFO", "INFO", message, fault)

\* error(message)
Error(message, fault) ==
    /\ CanCall
    /\ IF fault = "store" THEN StoreThrows("error", message)
       ELSE Emit("error", "error", "error", "ERROR", "ERROR", message, fault)

\* Time passes.
Tick ==
    /\ clock < MaxClock
    /\ response = NoResponse
    /\ clock' = clock + 1
    /\ UNCHANGED <<config, logs, dbSeq, console, dirExists, file, fsWrites,
                   history, fileAtStart, response>>

----------------------------------------------------------------------------
\* Construction

\* The messages the calls are made with: two plain ones, and one holding a
\* quote, a backslash, a comma and a line break followed by the text of the
\* CSV header.
Messages ==
    { <<"a">>, <<"b">>,
      <<Quote, Backslash, "\n", "timestamp", ",", "level", ",", "message">> }

Configs ==
    [logToConsole : BOOLEAN, logToFile : BOOLEAN, fileFormat : LogFormat,
     serverEnable : BOOLEAN]

\* The state after new Wlog(config): the table exists and is empty, the log
\* file is absent or empty.
Init ==
    /\ config \in Configs
    /\ logs = <<>>
    /\ dbSeq = 0
    /\ console = <<>>
    /\ file \in {NoFile, EmptyFile}
    /\ dirExists \in {TRUE, file.exists}
    /\ fsWrites = 0
    /\ clock = 0
    /\ history = <<>>
    /\ fileAtStart = file
    /\ response = NoResponse



----------------------------------------------------------------------------
\* The query builder and the HTTP handler

\* A JS number: an integer or NaN.
Num(n) == [nan |-> FALSE, n |-> n]
NaN == [nan |-> TRUE, n |-> 0]
NoNumber == [present |-> FALSE, value |-> NaN]
SomeNumber(x) == [present |-> TRUE, value |-> x]

\* Truthiness, as `if (x)`, `x || y` and `x ? y : z` test it.
TruthyString(o) == o.present /\ o.value # <<>>
TruthyNumber(o) == o.present /\ ~o.value.nan /\ o.value.n # 0

\* parseInt(s): the integer its leading digits spell, NaN when it has none.
RECURSIVE LeadingDigits(_, _)
LeadingDigits(s, acc) ==
    IF s # <<>> /\ IsDigit(Head(s))
    THEN LeadingDigits(Tail(s), acc * 10 + DigitValue(Head(s)))
    ELSE acc

parseInt(s) ==
    IF s # <<>> /\ IsDigit(Head(s)) THEN Num(LeadingDigits(s, 0)) ELSE NaN

\* String.prototype.toUpperCase, token by token.
UpperToken(c) ==
    IF c = "asc" THEN "ASC"
    ELSE IF c = "desc" THEN "DESC"
    ELSE IF c = "foo" THEN "FOO"
    ELSE IF c = "log" THEN "LOG"
    ELSE IF c = "info" THEN "INFO"
    ELSE IF c = "error" THEN "ERROR"
    ELSE c

toUpperCase(s) == [i \in DOMAIN s |-> UpperToken(s[i])]

\* The LogQueryParams the fetch handler builds from url.searchParams.
ParseRequest(q) ==
    [startDate |-> IF TruthyString(q.startDate) THEN q.startDate ELSE Absent,
     endDate   |-> IF TruthyString(q.endDate) THEN q.endDate ELSE Absent,
     level     |-> IF TruthyString(q.level) THEN q.level ELSE Absent,
     limit     |-> IF TruthyString(q.limit)
                   THEN SomeNumber(parseInt(q.limit.value)) ELSE NoNumber,
     offset    |-> IF TruthyString(q.offset)
                   THEN SomeNumber(parseInt(q.offset.value)) ELSE NoNumber,
     order     |-> IF q.order.present /\ toUpperCase(q.order.value) # <<>>
                   THEN Str(toUpperCase(q.order.value)) ELSE Str(<<"DESC">>)]

\* A bound value: a text or an integer.
TextValue(s) == [kind |-> "text", text |-> s, n |-> 0]
IntValue(n) == [kind |-> "integer", text |-> <<>>, n |-> n]

\* The tokens of the statement text.
SelectFrom == "SELECT * FROM logs"
Where == " WHERE "
And == " AND "
OrderBy == " ORDER BY timestamp "
LimitClause == " LIMIT ?"
OffsetClause == " OFFSET ?"
StartCondition == "timestamp >= ?"
EndCondition == "timestamp <= ?"
LevelCondition == "level = ?"

\* conditions.join(" AND ")
RECURSIVE Join(_, _)
Join(ss, sep) ==
    IF ss = <<>> THEN <<>>
    ELSE IF Len(ss) = 1 THEN <<ss[1]>>
    ELSE <<ss[1], sep>> \o Join(Tail(ss), sep)

\* Conditions without the level condition (a variant the filter conjunction
\* must tell from it).
ConditionsWithoutLevel(params) ==
    (IF TruthyString(params.startDate)
     THEN <<[sql |-> StartCondition, value |-> TextValue(params.startDate.value)]>>
     ELSE <<>>)
    \o (IF TruthyString(params.endDate)
        THEN <<[sql |-> EndCondition, value |-> TextValue(params.endDate.value)]>>
        ELSE <<>>)

\* The conditions and their values, in the order the builder pushes them.
Conditions(params) ==
    (IF TruthyString(params.startDate)
     THEN <<[sql |-> StartCondition, value |-> TextValue(params.startDate.value)]>>
     ELSE <<>>)
    \o (IF TruthyString(params.endDate)
        THEN <<[sql |-> EndCondition, value |-> TextValue(params.endDate.value)]>>
        ELSE <<>>)
    \o (IF TruthyString(params.level)
        THEN <<[sql |-> LevelCondition, value |-> TextValue(params.level.value)]>>
        ELSE <<>>)

\* The LIMIT / OFFSET tail of the statement and its values.
Pagination(params) ==
    IF TruthyNumber(params.limit) THEN
        IF TruthyNumber(params.offset)
        THEN [sql |-> <<LimitClause, OffsetClause>>,
              values |-> <<IntValue(params.limit.value.n),
                           IntValue(params.offset.value.n)>>]
        ELSE [sql |-> <<LimitClause>>,
              values |-> <<IntValue(params.limit.value.n)>>]
    ELSE [sql |-> <<>>, values |-> <<>>]

\* `${params.order || 'DESC'}`
OrderText(params) ==
    IF TruthyString(params.order) THEN params.order.value ELSE <<"DESC">>

buildQueryFromParams(params) ==
    LET conds == Conditions(params)
        page == Pagination(params)
    IN  [query |-> <<SelectFrom>>
                   \o (IF Len(conds) > 0
                       THEN <<Where>> \o Join([i \in DOMAIN conds |-> conds[i].sql], And)
                       ELSE <<>>)
                   \o <<OrderBy>> \o OrderText(params)
                   \o page.sql,
         values |-> [i \in DOMAIN conds |-> conds[i].value] \o page.values]

----------------------------------------------------------------------------
\* SQLite: preparing and running the statement the builder produced

\* Text comparison under the BINARY collation, on the tokens timestamps are
\* made of: the digits, then "Z".
CharRank(c) == IF IsDigit(c) THEN DigitValue(c) ELSE Len(Digits)

RECURSIVE TextLeq(_, _)
TextLeq(a, b) ==
    IF a = <<>> THEN TRUE
    ELSE IF b = <<>> THEN FALSE
    ELSE IF Head(a) = Head(b) THEN TextLeq(Tail(a), Tail(b))
    ELSE CharRank(Head(a)) < CharRank(Head(b))

\* The position of the ORDER BY token, 0 when there is none.
OrderByAt(query) ==
    IF \E i \in DOMAIN query : query[i] = OrderBy
    THEN CHOOSE i \in DOMAIN query :
            query[i] = OrderBy /\ \A j \in 1..(i - 1) : query[j] # OrderBy
    ELSE 0

\* The WHERE clause: the tokens between SELECT and ORDER BY.
WherePart(query) == SubSeq(query, 2, OrderByAt(query) - 1)

WhereConditions(query) ==
    LET w == WherePart(query)
    IN  [i \in 1..(Len(w) \div 2) |-> w[2 * i]]

\* The tokens after ORDER BY timestamp, up to LIMIT: the direction.
Direction(query) ==
    LET from == OrderByAt(query) + 1
        stop == IF \E i \in from..Len(query) : query[i] = LimitClause
                THEN CHOOSE i \in from..Len(query) :
                        query[i] = LimitClause
                        /\ \A j \in from..(i - 1) : query[j] # LimitClause
                ELSE Len(query) + 1
    IN  [from |-> from, stop |-> stop, text |-> SubSeq(query, from, stop - 1)]

PageTail(query) == SubSeq(query, Direction(query).stop, Len(query))

\* db.prepare(query) succeeds: the text is one well-formed SELECT of the
\* shape above.  Any other direction text of the model's requests is a
\* syntax error.
Prepares(query) ==
    /\ Len(query) >= 1 /\ query[1] = SelectFrom
    /\ OrderByAt(query) >= 2
    /\ LET w == WherePart(query)
       IN  \/ w = <<>>
           \/ /\ Len(w) % 2 = 0
              /\ \A i \in DOMAIN w :
                    IF i = 1 THEN w[i] = Where
                    ELSE IF i % 2 = 1 THEN w[i] = And
                    ELSE w[i] \in {StartCondition, EndCondition, LevelCondition}
    /\ Direction(query).text \in {<<"ASC">>, <<"DESC">>}
    /\ PageTail(query) \in {<<>>, <<LimitClause>>, <<LimitClause, OffsetClause>>}

\* Whether a row satisfies one condition with its bound value.
Satisfies(row, sql, value) ==
    IF sql = StartCondition THEN TextLeq(value.text, row.timestamp)
    ELSE IF sql = EndCondition THEN TextLeq(row.timestamp, value.text)
    ELSE <<row.level>> = value.text

Selected(query, values, row) ==
    LET conds == WhereConditions(query)
    IN  \A i \in DOMAIN conds :
            Satisfies(row, conds[i], values[i])

RECURSIVE Filter(_, _, _)
Filter(query, values, rows) ==
    IF rows = <<>> THEN <<>>
    ELSE (IF Selected(query, values, Head(rows)) THEN <<Head(rows)>> ELSE <<>>)
         \o Filter(query, values, Tail(rows))

\* ORDER BY timestamp <direction>: every arrangement of the rows that is
\* sorted on timestamp; SQL leaves the order of rows with equal timestamps
\* open.
Orderings(rows, direction) ==
    LET n == Len(rows)
        perms == {p \in [1..n -> 1..n] : \A i, j \in 1..n : i # j => p[i] # p[j]}
        InOrder(a, b) == IF direction = <<"ASC">>
                         THEN TextLeq(a.timestamp, b.timestamp)
                         ELSE TextLeq(b.timestamp, a.timestamp)
    IN  { [i \in 1..n |-> rows[p[i]]] :
            p \in {q \in perms : \A i \in 1..(n - 1) :
                                    InOrder(rows[q[i]], rows[q[i + 1]])} }

\* LIMIT k OFFSET m: a negative k is no limit, a negative m is 0.
Page(rows, query, values) ==
    LET tail == PageTail(query)
        nc == Len(WhereConditions(query))
        k == IF Len(tail) >= 1 THEN values[nc + 1].n ELSE -1
        m == IF Len(tail) >= 2 /\ values[nc + 2].n > 0 THEN values[nc + 2].n ELSE 0
        stop == IF k < 0 \/ m + k > Len(rows) THEN Len(rows) ELSE m + k
    IN  SubSeq(rows, m + 1, stop)

\* statement.all(...values): the results the statement can return.
StatementAll(query, values, rows) ==
    { Page(o, query, values) :
        o \in Orderings(Filter(query, values, rows), Direction(query).text) }

\* The query strings of the requests.
RawOptions(values) == {Absent} \cup {Str(v) : v \in values}

Requests ==
    [startDate : RawOptions({<<"0", "1">>}),
     endDate   : RawOptions({<<"0", "0", "Z">>}),
     level     : RawOptions({<<>>, <<"error">>, <<"log">>}),
     limit     : RawOptions({<<"0">>, <<"1">>, <<"2">>, <<"x">>}),
     offset    : RawOptions({<<"0">>, <<"1">>}),
     order     : RawOptions({<<>>, <<"asc">>, <<"DESC">>, <<"foo">>})]

\* The responses the handler can give once the statement is built: the rows
\* of statement.all, or an error when db.prepare throws.
Responses(params, built) ==
    IF Prepares(built.query)
    THEN { [status |-> "ok", params |-> params, query |-> built.query,
            values |-> built.values, rows |-> rows] :
             rows \in StatementAll(built.query, built.values, logs) }
    ELSE { [status |-> "error", params |-> params, query |-> built.query,
            values |-> built.values, rows |-> <<>>] }

Handle(params) == Responses(params, buildQueryFromParams(params))

\* The fetch handler on a request for serverOptions.path.
Fetch ==
    /\ config.serverEnable
    /\ response = NoResponse
    /\ \E q \in Requests : response' \in Handle(ParseRequest(q))
    /\ UNCHANGED <<config, logs, dbSeq, console, dirExists, file, fsWrites,
                   clock, history, fileAtStart>>

\* The response has been sent.
Respond ==
    /\ response # NoResponse
    /\ response' = NoResponse
    /\ UNCHANGED <<config, logs, dbSeq, console, dirExists, file, fsWrites,
                   clock, history, fileAtStart>>

----------------------------------------------------------------------------
\* The specifications

\* A logger without the HTTP server, in an environment where no I/O
\* operation fails.
InitLogger == Init /\ ~config.serverEnable

Next ==
    \/ \E message \in Messages : Log(message, NoFault)
    \/ \E message \in Messages : Info(message, NoFault)
    \/ \E message \in Messages : Error(message, NoFault)
    \/ Tick

Spec == InitLogger /\ [][Next]_vars

\* The same logger in an environment where any I/O operation may fail.
NextFaults ==
    \/ \E fault \in {NoFault} \cup Faults : Log(<<"a">>, fault)
    \/ \E fault \in {NoFault} \cup Faults : Info(<<"a">>, fault)
    \/ \E fault \in {NoFault} \cup Faults : Error(<<"a">>, fault)
    \/ Tick

SpecFaults == InitLogger /\ [][NextFaults]_vars

\* new Wlog({serverOptions: {enable: true}}): console on, file off, the
\* server answering requests between the calls.
InitServer ==
    /\ Init
    /\ config = [logToConsole |-> TRUE, logToFile |-> FALSE,
                 fileFormat |-> TEXT, serverEnable |-> TRUE]
    /\ file = NoFile
    /\ dirExists = TRUE

NextServer ==
    \/ Log(<<"a">>, NoFault)
    \/ Info(<<"a">>, NoFault)
    \/ Error(<<"a">>, NoFault)
    \/ Tick
    \/ Fetch
    \/ Respond

SpecServer == InitServer /\ [][NextServer]_vars

----------------------------------------------------------------------------
\* Properties

\* A step is a call of log, info or error; its record is Last(history').
IsCall == Len(history') = Len(history) + 1

\* The console line an entry point writes for the call recorded as c.
ConsoleLineOf(c) == ConsoleLine(c.op, UpperToken(c.op), c.message, c.time)

\* The entry an entry point hands to the file sink for the call recorded as c.
EntryOf(c) ==
    [timestamp |-> getTimestamp(c.time), level |-> UpperToken(c.op),
     message |-> c.message]

EntriesOf(h) == [i \in DOMAIN h |-> EntryOf(h[i])]

\* C1 (as claimed): when the Store insert of a call of log, info or error
\* fails, the failure does not reach the caller, and the console line (when
\* logToConsole) and the file write (when logToFile) of that call still
\* take place.
C1_StoreFailureContained ==
    [][(IsCall /\ Last(history').storeFailed) =>
          /\ ~Last(history').threw
          /\ config.logToConsole =>
                console' = Append(console, ConsoleLineOf(Last(history')))
          /\ config.logToFile => fsWrites' = fsWrites + 1]_vars

\* C2 (as claimed): a failure inside the file path of a call is never raised
\* to the caller, the Store row of the call is inserted, the console line is
\* emitted when enabled, and the file is left as it was before the call.
C2_FileFailureLeavesFile ==
    [][(IsCall /\ Last(history').fileFailed # "none") =>
          /\ ~Last(history').threw
          /\ Len(logs') = Len(logs) + 1
          /\ Last(logs').level = Last(history').op
          /\ Last(logs').message = Last(history').message
          /\ config.logToConsole =>
                /\ Len(console') > Len(console)
                /\ console'[Len(console) + 1] = ConsoleLineOf(Last(history'))
          /\ file' = file]_vars

\* C2 (amended): a failure inside the file path of a call is never raised to
\* the caller, the Store row of the call is inserted and the console line is
\* emitted when enabled; the file is left as it was when the failure is in
\* the directory creation, the read or the parse (a writeFileSync that fails
\* may leave the file truncated or partly written).
C2_FileFailureContained ==
    [][(IsCall /\ Last(history').fileFailed # "none") =>
          /\ ~Last(history').threw
          /\ Len(logs') = Len(logs) + 1
          /\ Last(logs').level = Last(history').op
          /\ Last(logs').message = Last(history').message
          /\ config.logToConsole =>
                /\ Len(console') > Len(console)
                /\ console'[Len(console) + 1] = ConsoleLineOf(Last(history'))
          /\ Last(history').fileFailed \in {"mkdir", "read", "parse"} =>
                file' = file]_vars

\* C2's case: the second call found the JSON file damaged by a failed write
\* of the first, JSON.parse threw, and the call returned with its row stored.
C2_Witness ==
    /\ Len(history) = 2
    /\ history[1].fileFailed = "write"
    /\ history[2].fileFailed = "parse"
    /\ ~history[2].threw
    /\ Len(logs) = 2
    /\ config.logToConsole

\* C3: under every configuration a call of log, info or error adds exactly
\* one row to logs, with the level tag of the entry point and the given
\* message and an id greater than every id before, and leaves the rows
\* before unchanged; with logToFile disabled it writes nothing to the file
\* system, and with logToConsole enabled it writes its console line.
C3_InsertUnconditional ==
    [][IsCall =>
          /\ logs' = Append(logs, Last(logs'))
          /\ Last(logs').level = Last(history').op
          /\ Last(logs').message = Last(history').message
          /\ \A i \in DOMAIN logs : logs[i].id < Last(logs').id
          /\ ~config.logToFile =>
                fsWrites' = fsWrites /\ file' = file /\ dirExists' = dirExists
          /\ config.logToConsole =>
                console' = Append(console, ConsoleLineOf(Last(history')))]_vars

\* C3's case: two calls, one of them info, with file output disabled and
\* console output enabled.
C3_Witness ==
    /\ ~config.logToFile /\ config.logToConsole
    /\ Len(history) = 2 /\ Len(logs) = 2 /\ Len(console) = 2
    /\ history[2].op = "info"
    /\ fsWrites = 0

\* The rows of the store a request's filters select, in store order.
Matches(params, row) ==
    /\ params.level.present => <<row.level>> = params.level.value
    /\ params.startDate.present => TextLeq(params.startDate.value, row.timestamp)
    /\ params.endDate.present => TextLeq(row.timestamp, params.endDate.value)

MatchingRows(params) == {i \in DOMAIN logs : Matches(params, logs[i])}

\* A row sequence is an arrangement of the matching rows that is sorted on
\* timestamp in the direction asked for.
IsOrderedResult(params, rows) ==
    /\ Len(rows) = Cardinality(MatchingRows(params))
    /\ Range(rows) = {logs[i] : i \in MatchingRows(params)}
    /\ \A i \in 1..(Len(rows) - 1) :
          IF params.order.value = <<"ASC">>
          THEN TextLeq(rows[i].timestamp, rows[i + 1].timestamp)
          ELSE TextLeq(rows[i + 1].timestamp, rows[i].timestamp)

IsInteger(o) == o.present /\ ~o.value.nan

Min(a, b) == IF a < b THEN a ELSE b

\* C4 (as claimed): a query with limit=k returns at most k rows, for every
\* integer k >= 0 including 0; with limit=k and offset=m it returns rows
\* m..m+k-1 of the filtered and ordered result R; with offset present and
\* limit absent it returns R.
C4_Pagination ==
    response.status = "ok" =>
        /\ (IsInteger(response.params.limit) /\ response.params.limit.value.n >= 0) =>
              Len(response.rows) <= response.params.limit.value.n
        /\ (IsInteger(response.params.limit) /\ IsInteger(response.params.offset)) =>
              \E R \in Orderings(Filter(response.query, response.values, logs),
                                 response.params.order.value) :
                  response.rows =
                      SubSeq(R, response.params.offset.value.n + 1,
                             Min(Len(R), response.params.offset.value.n
                                         + response.params.limit.value.n))
        /\ (response.params.offset.present /\ ~response.params.limit.present) =>
              IsOrderedResult(response.params, response.rows)

\* C5 (as claimed): the statement built for a request is a single SELECT over
\* logs whose ORDER BY direction is exactly ASC or DESC, whatever the order
\* query string was.
C5_OrderIsAscOrDesc ==
    response.status # "none" =>
        /\ response.query[1] = SelectFrom
        /\ Direction(response.query).text \in {<<"ASC">>, <<"DESC">>}

\* C6: a query whose order is ASC or DESC and that is not cut by a limit
\* returns exactly the rows of the store that satisfy every filter present:
\* level equal to the level asked for, timestamp within the inclusive bounds;
\* an absent field selects nothing away.
C6_FilterConjunction ==
    (response.status = "ok" /\ ~TruthyNumber(response.params.limit)) =>
        IsOrderedResult(response.params, response.rows)

\* C6's case: a query on level and startDate together answered with one of
\* the two rows of the store.
C6_Witness ==
    /\ response.status = "ok"
    /\ ~TruthyNumber(response.params.limit)
    /\ response.params.level.present /\ response.params.startDate.present
    /\ Len(logs) = 2 /\ Len(response.rows) = 1
    /\ logs[1].level = logs[2].level

NoFilter(params) ==
    /\ ~params.startDate.present /\ ~params.endDate.present
    /\ ~params.level.present /\ ~TruthyNumber(params.limit)

\* C7 (as claimed): after calls inserting e1..en in that order, a query with
\* no filter returns en..e1 with order DESC (or absent) and e1..en with order
\* ASC, also when entries have the same timestamp.  (The statement orders on
\* timestamp alone, so rows of one timestamp come back in either order.)
C7_RoundTrip ==
    (response.status = "ok" /\ NoFilter(response.params)) =>
        response.rows = IF response.params.order.value = <<"ASC">>
                        THEN logs ELSE Reverse(logs)

\* C8: with logToFile and the JSON format, from an absent or empty file, after
\* n calls the file parses as the array [e1, ..., en] of the entries of the
\* calls, in call order (so each call keeps the entries before it).
C8_JsonFileIsEntries ==
    (config.logToFile /\ config.fileFormat = JSON) =>
        IF history = <<>> THEN file = fileAtStart
        ELSE /\ file.exists
             /\ JsonParse(file.content) = [ok |-> TRUE, val |-> EntriesOf(history)]

\* C8's case: two entries in the file, one with a message that holds a quote,
\* a backslash and a line break.
C8_Witness ==
    /\ config.logToFile /\ config.fileFormat = JSON
    /\ Len(history) = 2
    /\ \E i \in DOMAIN history : Quote \in Range(history[i].message)
    /\ Len(JsonParse(file.content).val) = 2

CsvHeaderLine == SubSeq(CsvHeader, 1, Len(CsvHeader) - 1)

CsvCase ==
    /\ config.logToFile /\ config.fileFormat = CSV
    /\ ~fileAtStart.exists
    /\ Len(history) >= 1

\* C9 (as claimed): with the CSV format, after one or more calls on a file
\* that did not exist, the first line is the header, the header occurs once
\* and the file has one further line per call.
C9_CsvHeaderOnce ==
    CsvCase =>
        /\ Len(Lines(file.content)) = Len(history) + 1
        /\ Lines(file.content)[1] = CsvHeaderLine
        /\ Cardinality({i \in DOMAIN Lines(file.content) :
                           Lines(file.content)[i] = CsvHeaderLine}) = 1

SingleLine(message) == "\n" \notin Range(message)

\* C9 (amended): with the CSV format, after one or more calls, none with a
\* line break in its message, on a file that did not exist, the first line
\* is the header, the header occurs once and the file has one further line
\* per call, in call order.
C9_CsvHeaderOnceSingleLine ==
    (CsvCase /\ \A i \in DOMAIN history : SingleLine(history[i].message)) =>
        /\ Len(Lines(file.content)) = Len(history) + 1
        /\ Lines(file.content)[1] = CsvHeaderLine
        /\ Cardinality({i \in DOMAIN Lines(file.content) :
                           Lines(file.content)[i] = CsvHeaderLine}) = 1
        /\ \A i \in DOMAIN history :
              Lines(file.content)[i + 1] \o <<"\n">> = CsvLine(EntryOf(history[i]))

\* C9's case: two calls with one-line messages on a fresh CSV file.
C9_Witness ==
    /\ CsvCase
    /\ Len(history) = 2
    /\ \A i \in DOMAIN history : SingleLine(history[i].message)
    /\ Len(Lines(file.content)) = 3

\* new Wlog({logToFile: true, filePath: "t", fileFormat: "csv"}), t.csv
\* absent, then log("a") and error("b").
C10_Scenario ==
    /\ config.logToConsole /\ config.logToFile /\ config.fileFormat = CSV
    /\ ~fileAtStart.exists
    /\ Len(history) = 2
    /\ history[1].op = "log" /\ history[1].message = <<"a">>
    /\ history[2].op = "error" /\ history[2].message = <<"b">>

\* C10 (as claimed): the scenario leaves three lines in t.csv, the header, a
\* line ending ,log,a and a line ending ,error,b: the level in the file is
\* the level tag stored in logs.
C10_CsvLevelsAsStored ==
    C10_Scenario =>
        /\ Len(Lines(file.content)) = 3
        /\ Lines(file.content)[1] = CsvHeaderLine
        /\ EndsWith(Lines(file.content)[2], <<",", logs[1].level, ",", "a">>)
        /\ EndsWith(Lines(file.content)[3], <<",", logs[2].level, ",", "b">>)
        /\ logs[1].level = "log" /\ logs[2].level = "error"

\* C10 (amended): the scenario leaves three lines in t.csv, the header, a
\* line ending ,LOG,a and a line ending ,ERROR,b: the level in the file is
\* the upper-case form of the level tag stored in logs.
C10_CsvLevelsUpperCase ==
    C10_Scenario =>
        /\ Len(Lines(file.content)) = 3
        /\ Lines(file.content)[1] = CsvHeaderLine
        /\ EndsWith(Lines(file.content)[2], <<",", "LOG", ",", "a">>)
        /\ EndsWith(Lines(file.content)[3], <<",", "ERROR", ",", "b">>)
        /\ logs[1].level = "log" /\ logs[2].level = "error"

\* C10's case: the scenario has run and the file has its three lines.
C10_Witness == C10_Scenario /\ Len(Lines(file.content)) = 3 /\ Len(logs) = 2

====
